---- MODULE Spec2Model ----
(***************************************************************************)
(* broker::util::variant<Tag, Ts...> (src/broker/util/variant.hh): the     *)
(* tagged storage and its lifecycle, detail::recursive_wrapper<T>, the     *)
(* visitation dispatch and the accessors built on it.                      *)
(*                                                                         *)
(* The template is instantiated as variant<size_t, Bool, Int,              *)
(* recursive_wrapper<Node>>.  A program owns NumVars variant objects       *)
(* (slots); a slot that does not exist is raw memory.  The free store is   *)
(* a set of addresses, each unused or live; deleting an address that is    *)
(* not live is a double delete.                                            *)
(***************************************************************************)
EXTENDS Integers, Sequences, FiniteSets, TLC

\* Bounds of the model.
NumVars == 2
MaxVal == 1

\* The free store never runs out before the program's variants do.
MaxAllocs == NumVars
\* visit() is called with up to MaxArity variants.
MaxArity == NumVars

Slots == 1..NumVars
Vals == 0..MaxVal
Addrs == 1..MaxAllocs

\* unique_ptr<T>{} / nullptr
Null == 0
\* the observed value of a variant whose wrapper owns nothing
Empty == -1

VARIABLES exists, active, storage, heap, heapVal, liveObjects, fault, last

vars == <<exists, active, storage, heap, heapVal, liveObjects, fault, last>>

----------------------------------------------------------------------------
\* Types.  A type is [name, wrapped]: wrapped means detail::recursive_wrapper<name>.

Plain(nm) == [name |-> nm, wrapped |-> FALSE]

recursive_wrapper(nm) == [name |-> nm, wrapped |-> TRUE]

\* template <typename Tag, typename... Ts> class variant
Ts == << Plain("Bool"), Plain("Int"), recursive_wrapper("Node") >>

Tags == 0..(Len(Ts) - 1)

\* using front = typename front_type<Ts...>::type
front == Ts[1]

RawTy == Plain("raw")

RawObj == [ty |-> RawTy, val |-> 0]

RawStorage == [live |-> 0, obj |-> RawObj]

\* The machine state an operation works on: the program state plus what the
\* running operation has done so far (threw: an exception is propagating; ub:
\* undefined behaviour was executed and the build carried on; log: the
\* constructor / destructor calls made, in order; ret, ret2, rv: results).
Machine ==
  [exists |-> exists, active |-> active, storage |-> storage, heap |-> heap,
   heapVal |-> heapVal, liveObjects |-> liveObjects, fault |-> fault,
   threw |-> FALSE, ub |-> "none", log |-> <<>>, news |-> 0, deletes |-> 0,
   ret |-> RawObj, ret2 |-> RawObj, rv |-> 0, calls |-> 0, result |-> <<>>]

\* Nothing more of the operation runs: the program trapped, or an exception
\* is on its way to the caller.
Dead(M) == M.fault # "none" \/ M.threw

\* Sequencing: the statement M, then the rest k of the operation on its result.
Bind(M, k(_)) == CHOOSE r \in {IF Dead(m) THEN m ELSE k(m) : m \in {M}} : TRUE

\* Undefined behaviour: the build either traps (fault) or carries on.
Undefined(M, what, ubo) ==
  IF ubo = "crash" THEN [M EXCEPT !.fault = what] ELSE [M EXCEPT !.ub = what]

Born(M, kind, ty) ==
  [M EXCEPT !.liveObjects = @ + 1, !.log = Append(@, <<kind, ty>>)]

----------------------------------------------------------------------------
\* The free store.

HasFresh(M) == \E a \in Addrs : M.heap[a] = "unused"

FreshAddr(M) ==
  CHOOSE a \in Addrs :
    M.heap[a] = "unused" /\ \A b \in Addrs : b < a => M.heap[b] # "unused"

\* new T(val): throws (the allocation or T's constructor) or yields rv = address
op_new(M, val, fail) ==
  IF fail \/ ~HasFresh(M) THEN [M EXCEPT !.threw = TRUE]
  ELSE [M EXCEPT !.heap[FreshAddr(M)] = "live", !.heapVal[FreshAddr(M)] = val,
                 !.rv = FreshAddr(M), !.news = @ + 1]

\* delete p (unique_ptr's destructor / reset)
op_delete(M, a) ==
  IF a = Null THEN M
  ELSE IF M.heap[a] # "live" THEN [M EXCEPT !.fault = "double_free"]
  ELSE [M EXCEPT !.heap[a] = "unused", !.heapVal[a] = 0, !.deletes = @ + 1]

\* recursive_wrapper::get() and the read of the T it refers to: *item
rw_get(M, x, ubo, g) ==
  IF x.val # Null /\ M.heap[x.val] = "live"
  THEN [M EXCEPT !.rv = M.heapVal[x.val]]
  ELSE [Undefined(M, "null_deref", ubo) EXCEPT !.rv = g]

\* recursive_wrapper::assign: *item = u
rw_assign(M, x, u, ubo) ==
  IF x.val # Null /\ M.heap[x.val] = "live"
  THEN [M EXCEPT !.heapVal[x.val] = u]
  ELSE Undefined(M, "null_deref", ubo)

----------------------------------------------------------------------------
\* The alternative types' own special members.  For a wrapped type these are
\* recursive_wrapper's; Bool and Int are plain values whose copy may throw.

\* T(const T&): ret = the new object
T_copy_ctor(M, x, fail, ubo, g) ==
  IF x.ty.wrapped
  THEN \* recursive_wrapper(const recursive_wrapper& other): item(new T(other.get()))
       Bind(rw_get(M, x, ubo, g), LAMBDA M1 :
       Bind(op_new(M1, M1.rv, fail), LAMBDA M2 :
       Born([M2 EXCEPT !.ret = [ty |-> x.ty, val |-> M2.rv]], "copy", x.ty)))
  ELSE IF fail THEN [M EXCEPT !.threw = TRUE]
  ELSE Born([M EXCEPT !.ret = x], "copy", x.ty)

\* T(T&&) noexcept: ret = the new object, ret2 = the donor afterwards
T_move_ctor(M, x) ==
  IF x.ty.wrapped
  THEN \* recursive_wrapper(recursive_wrapper&& other): item(other.item.release())
       Born([M EXCEPT !.ret = x, !.ret2 = [x EXCEPT !.val = Null]], "move", x.ty)
  ELSE Born([M EXCEPT !.ret = x, !.ret2 = x], "move", x.ty)

\* T& operator=(const T&): ret = the assigned-to object
T_copy_assign(M, d, s, fail, ubo, g) ==
  IF d.ty.wrapped
  THEN \* recursive_wrapper::operator=(const recursive_wrapper& rhs): assign(rhs.get())
       Bind(rw_get(M, s, ubo, g), LAMBDA M1 :
       Bind(IF fail THEN [M1 EXCEPT !.threw = TRUE]
            ELSE rw_assign(M1, d, M1.rv, ubo), LAMBDA M2 :
       [M2 EXCEPT !.ret = d, !.log = Append(@, <<"assign", d.ty>>)]))
  ELSE IF fail THEN [M EXCEPT !.threw = TRUE]
  ELSE [M EXCEPT !.ret = [d EXCEPT !.val = s.val],
                 !.log = Append(@, <<"assign", d.ty>>)]

\* T& operator=(T&&): ret = the assigned-to object, ret2 = the donor afterwards
\* (move_assigner's static_assert on is_nothrow_move_assignable is a
\* compile-time matter and is not modelled: the operator is taken as written)
T_move_assign(M, d, s, self_move, ubo) ==
  IF d.ty.wrapped
  THEN \* recursive_wrapper::operator=(recursive_wrapper&& rhs)
       \*   { item = std::move(rhs.item); }
       \* and no return statement: flowing off the end is undefined
       Bind(IF self_move THEN [M EXCEPT !.ret = d, !.ret2 = d]
            ELSE [op_delete(M, d.val) EXCEPT !.ret = [d EXCEPT !.val = s.val],
                                             !.ret2 = [s EXCEPT !.val = Null]],
            LAMBDA M1 :
       Undefined([M1 EXCEPT !.log = Append(@, <<"move_assign", d.ty>>)],
                 "missing_return", ubo))
  ELSE [M EXCEPT !.ret = [d EXCEPT !.val = s.val], !.ret2 = s,
                 !.log = Append(@, <<"move_assign", d.ty>>)]

\* ~T()
T_dtor(M, x) ==
  Bind(IF x.ty.wrapped THEN op_delete(M, x.val) ELSE M, LAMBDA M1 :
  [M1 EXCEPT !.liveObjects = @ - 1, !.log = Append(@, <<"dtor", x.ty>>)])

----------------------------------------------------------------------------
\* The variant: storage, construct, destruct and the dispatch.

\* *reinterpret_cast<T*>(&storage): ret = the object seen in the buffer.  A
\* buffer whose live object is of another type is read as garbage.
reinterpret(M, v, T, ubo) ==
  IF M.storage[v].live = 0 THEN [M EXCEPT !.ret = [ty |-> T, val |-> Null]]
  ELSE IF M.storage[v].obj.ty = T THEN [M EXCEPT !.ret = M.storage[v].obj]
  ELSE [Undefined(M, "type_confusion", ubo) EXCEPT
          !.ret = [ty |-> T, val |-> Null]]

\* A get_value without the recursive_wrapper overloads: the wrapper is handed
\* to the visitor as it is.
get_value_opaque(M, v, x, internal, ubo, g) ==
  [M EXCEPT !.ret = [ty |-> x.ty, val |-> x.val, ptr |-> <<"buf", v>>]]

\* get_value(x, internal): ret = what the visitor is called with, [ty, val, ptr]
\* (ptr: where the argument lives).  External visitation of a wrapper calls
\* x.get(), which reads item.
get_value(M, v, x, internal, ubo, g) ==
  IF internal \/ ~x.ty.wrapped
  THEN [M EXCEPT !.ret = [ty |-> x.ty, val |-> x.val, ptr |-> <<"buf", v>>]]
  ELSE IF M.storage[v].live = 0
       THEN [M EXCEPT !.ub = "uninit_read",
                      !.ret = [ty |-> Plain(x.ty.name), val |-> g,
                               ptr |-> <<"heap", Null>>]]
  ELSE Bind(rw_get(M, x, ubo, g), LAMBDA M1 :
       [M1 EXCEPT !.ret = [ty |-> Plain(x.ty.name), val |-> M1.rv,
                           ptr |-> <<"heap", x.val>>]])

\* invoke<T>: visitor(get_value(*reinterpret_cast<T*>(&storage), internal), args...)
invoke(M, T, v, internal, ubo, g) ==
  Bind(reinterpret(M, v, T, ubo), LAMBDA M1 :
  get_value(M1, v, M1.ret, internal, ubo, g))

\* visit_impl: the assert on which_active, then callers[which_active]
visit_impl(M, v, internal, ubo, g) ==
  IF M.active[v] \notin Tags THEN [M EXCEPT !.fault = "bad_tag"]
  ELSE invoke(M, Ts[M.active[v] + 1], v, internal, ubo, g)

\* apply<std::true_type>: ret = the object the lifecycle visitor receives
apply_visitor_internal(M, v, ubo, g) ==
  Bind(visit_impl(M, v, TRUE, ubo, g), LAMBDA M1 :
  [M1 EXCEPT !.ret = [ty |-> M1.ret.ty, val |-> M1.ret.val]])

\* construct(T&& x): new (&storage) type(std::forward<T>(x))
construct(M, self, x, rvalue, fail, ubo, g) ==
  Bind(IF rvalue THEN T_move_ctor(M, x) ELSE T_copy_ctor(M, x, fail, ubo, g),
       LAMBDA M1 :
  [M1 EXCEPT !.storage[self] = [live |-> @.live + 1, obj |-> M1.ret]])

\* dtor visitor: x.~T()
dtor(M, x) == T_dtor(M, x)

\* destruct(): apply_visitor_internal(dtor())
destruct(M, self, ubo, g) ==
  Bind(apply_visitor_internal(M, self, ubo, g), LAMBDA M1 :
  Bind(dtor(M1, M1.ret), LAMBDA M2 :
  [M2 EXCEPT !.storage[self] = [live |-> @.live - 1, obj |-> RawObj]]))

\* copy_ctor visitor: self.construct(other)
copy_ctor(M, self, other, fail, ubo, g) ==
  construct(M, self, other, FALSE, fail, ubo, g)

\* move_ctor visitor: self.construct(std::move(rhs)); rhs lives in slot src
move_ctor(M, self, src, rhs, ubo, g) ==
  Bind(construct(M, self, rhs, TRUE, FALSE, ubo, g), LAMBDA M1 :
  [M1 EXCEPT !.storage[src].obj = M1.ret2])

\* An assigner that destroys the old alternative before it copies the source.
assigner_destroy_first(M, self, rhs_active, rhs, fail, ubo, g) ==
  IF M.active[self] = rhs_active
  THEN Bind(reinterpret(M, self, rhs.ty, ubo), LAMBDA M1 :
       Bind(T_copy_assign(M1, M1.ret, rhs, fail, ubo, g), LAMBDA M2 :
       [M2 EXCEPT !.storage[self].obj = M2.ret]))
  ELSE Bind(destruct(M, self, ubo, g), LAMBDA M1 :
       Bind(T_copy_ctor(M1, rhs, fail, ubo, g), LAMBDA M2 :
       Bind(construct(M2, self, M2.ret, TRUE, FALSE, ubo, g), LAMBDA M3 :
       T_dtor(M3, M3.ret2))))

\* An assigner that copy-constructs the source straight into the buffer,
\* without the temporary.
assigner_direct(M, self, rhs_active, rhs, fail, ubo, g) ==
  IF M.active[self] = rhs_active
  THEN Bind(reinterpret(M, self, rhs.ty, ubo), LAMBDA M1 :
       Bind(T_copy_assign(M1, M1.ret, rhs, fail, ubo, g), LAMBDA M2 :
       [M2 EXCEPT !.storage[self].obj = M2.ret]))
  ELSE Bind(destruct(M, self, ubo, g), LAMBDA M1 :
       construct(M1, self, rhs, FALSE, fail, ubo, g))

\* assigner visitor (rhs is the source's object, seen internally)
assigner(M, self, rhs_active, rhs, fail, ubo, g) ==
  IF M.active[self] = rhs_active
  THEN \* *reinterpret_cast<Rhs*>(&self.storage) = rhs
       Bind(reinterpret(M, self, rhs.ty, ubo), LAMBDA M1 :
       Bind(T_copy_assign(M1, M1.ret, rhs, fail, ubo, g), LAMBDA M2 :
       [M2 EXCEPT !.storage[self].obj = M2.ret]))
  ELSE \* Rhs tmp(rhs); self.destruct(); self.construct(std::move(tmp)); ~tmp
       Bind(T_copy_ctor(M, rhs, fail, ubo, g), LAMBDA M1 :
       Bind(destruct(M1, self, ubo, g), LAMBDA M2 :
       Bind(construct(M2, self, M1.ret, TRUE, FALSE, ubo, g), LAMBDA M3 :
       T_dtor(M3, M3.ret2))))

\* move_assigner visitor (rhs lives in slot src)
move_assigner(M, self, rhs_active, src, rhs, ubo, g) ==
  IF M.active[self] = rhs_active
  THEN \* *reinterpret_cast<rhs_type*>(&self.storage) = std::move(rhs)
       Bind(reinterpret(M, self, rhs.ty, ubo), LAMBDA M1 :
       Bind(T_move_assign(M1, M1.ret, rhs, self = src, ubo), LAMBDA M2 :
       [M2 EXCEPT !.storage[src].obj = M2.ret2, !.storage[self].obj = M2.ret]))
  ELSE \* self.destruct(); self.construct(std::move(rhs))
       Bind(destruct(M, self, ubo, g), LAMBDA M1 :
       Bind(construct(M1, self, rhs, TRUE, FALSE, ubo, g), LAMBDA M2 :
       [M2 EXCEPT !.storage[src].obj = M2.ret2]))

\* Overload resolution of initializer<0, Ts...>::initialize for an argument of
\* type nm: the alternative nm itself, else the wrapper constructible from it.
overload(nm) ==
  IF \E i \in Tags : Ts[i + 1] = Plain(nm)
  THEN CHOOSE i \in Tags : Ts[i + 1] = Plain(nm)
  ELSE CHOOSE i \in Tags : Ts[i + 1] = recursive_wrapper(nm)

\* An initialize that constructs the alternative and leaves v.active alone.
initializer_no_tag(M, v, TT, x, rvalue, fail, ubo, g) ==
  construct(M, v, x, rvalue, fail, ubo, g)

\* initializer<TT, T, Tail...>::initialize(v, T&& / const T&)
initializer(M, v, TT, x, rvalue, fail, ubo, g) ==
  Bind(construct(M, v, x, rvalue, fail, ubo, g), LAMBDA M1 :
  [M1 EXCEPT !.active[v] = TT])

----------------------------------------------------------------------------
\* The public operations, as functions of the machine state.

\* variant() noexcept: construct(front{}); active = tag{}
variant_default(M, self, ubo, g) ==
  Bind(Born(M, "default", front), LAMBDA M1 :
  Bind(construct(M1, self, [ty |-> front, val |-> 0], TRUE, FALSE, ubo, g),
       LAMBDA M2 :
  Bind(T_dtor(M2, M2.ret2), LAMBDA M3 :
  [M3 EXCEPT !.active[self] = 0, !.exists[self] = TRUE])))

\* recursive_wrapper(U&& u) / recursive_wrapper(const U& u): item(new T(u)),
\* the implicit conversion of a T to the wrapped alternative; ret = the temporary
rw_convert(M, T, t, fail) ==
  Bind(op_new(M, t, fail), LAMBDA M1 :
  Born([M1 EXCEPT !.ret = [ty |-> T, val |-> M1.rv]], "convert", T))

\* variant(T&& x): initializer<0, Ts...>::initialize(*this, std::forward<T>(x))
variant_value(M, self, nm, t, rvalue, fail, ubo, g) ==
  IF Ts[overload(nm) + 1].wrapped
  THEN Bind(rw_convert(M, Ts[overload(nm) + 1], t, fail), LAMBDA M1 :
       Bind(initializer(M1, self, overload(nm), M1.ret, TRUE, FALSE, ubo, g),
            LAMBDA M2 :
       Bind(T_dtor(M2, M2.ret2), LAMBDA M3 :
       [M3 EXCEPT !.exists[self] = TRUE])))
  ELSE Bind(initializer(M, self, overload(nm),
                        [ty |-> Ts[overload(nm) + 1], val |-> t],
                        rvalue, fail, ubo, g), LAMBDA M1 :
       [M1 EXCEPT !.exists[self] = TRUE])

\* variant(const variant& other)
variant_copy(M, self, other, fail, ubo, g) ==
  Bind(apply_visitor_internal(M, other, ubo, g), LAMBDA M1 :
  Bind(copy_ctor(M1, self, M1.ret, fail, ubo, g), LAMBDA M2 :
  [M2 EXCEPT !.active[self] = M.active[other], !.exists[self] = TRUE]))

\* variant(variant&& other) noexcept
variant_move(M, self, other, ubo, g) ==
  Bind(apply_visitor_internal(M, other, ubo, g), LAMBDA M1 :
  Bind(move_ctor(M1, self, other, M1.ret, ubo, g), LAMBDA M2 :
  [M2 EXCEPT !.active[self] = M.active[other], !.exists[self] = TRUE]))

\* variant& operator=(const variant& rhs)
variant_assign(M, self, rhs, fail, ubo, g) ==
  Bind(apply_visitor_internal(M, rhs, ubo, g), LAMBDA M1 :
  Bind(assigner(M1, self, M.active[rhs], M1.ret, fail, ubo, g), LAMBDA M2 :
  [M2 EXCEPT !.active[self] = M.active[rhs]]))

\* variant& operator=(variant&& rhs) noexcept
variant_move_assign(M, self, rhs, ubo, g) ==
  Bind(apply_visitor_internal(M, rhs, ubo, g), LAMBDA M1 :
  Bind(move_assigner(M1, self, M.active[rhs], rhs, M1.ret, ubo, g), LAMBDA M2 :
  [M2 EXCEPT !.active[self] = M.active[rhs]]))

\* ~variant() noexcept
variant_dtor(M, self, ubo, g) ==
  Bind(destruct(M, self, ubo, g), LAMBDA M1 :
  [M1 EXCEPT !.exists[self] = FALSE, !.active[self] = 0])

----------------------------------------------------------------------------
\* Accessors, comparison and visitation.

nullptr == <<"heap", Null>>

\* getter<T> visitor: &val for a T, nullptr for anything else
getter(nm, x) == IF x.ty = Plain(nm) THEN x.ptr ELSE nullptr

\* get<T>(v): apply_visitor(getter<T>{}, expose(v)); ret = [ptr, val], val being
\* what the caller reads through a non-null result
get(M, v, nm, ubo, g) ==
  Bind(visit_impl(M, v, FALSE, ubo, g), LAMBDA M1 :
  [M1 EXCEPT !.ret = [ptr |-> getter(nm, M1.ret),
                      val |-> IF getter(nm, M1.ret) = nullptr THEN Empty
                              ELSE M1.ret.val]])

\* is<T>(v): get<T>(v) != nullptr
is(M, v, nm, ubo, g) ==
  Bind(get(M, v, nm, ubo, g), LAMBDA M1 :
  [M1 EXCEPT !.rv = (M1.ret.ptr # nullptr)])

\* which(v): expose(v).which()
which(M, v) == M.active[v]

\* T's own operator== / operator<; recursive_wrapper's compare *x.item with *y.item
T_compare(M, x, y, less, ubo, g) ==
  IF x.ty.wrapped
  THEN Bind(rw_get(M, x, ubo, g), LAMBDA M1 :
       Bind(rw_get(M1, y, ubo, g), LAMBDA M2 :
       [M2 EXCEPT !.rv = IF less THEN M1.rv < M2.rv ELSE M1.rv = M2.rv]))
  ELSE [M EXCEPT !.rv = IF less THEN x.val < y.val ELSE x.val = y.val]

\* equals visitor: *reinterpret_cast<const Rhs*>(&self.storage) == rhs
equals(M, self, rhs, ubo, g) ==
  Bind(reinterpret(M, self, rhs.ty, ubo), LAMBDA M1 :
  T_compare(M1, M1.ret, rhs, FALSE, ubo, g))

\* less_than visitor: *reinterpret_cast<const Rhs*>(&self.storage) < rhs
less_than(M, self, rhs, ubo, g) ==
  Bind(reinterpret(M, self, rhs.ty, ubo), LAMBDA M1 :
  T_compare(M1, M1.ret, rhs, TRUE, ubo, g))

\* operator==(x, y): rv = the result, calls = the number of value comparisons
variant_eq(M, x, y, ubo, g) ==
  IF M.active[x] = M.active[y]
  THEN Bind(apply_visitor_internal(M, y, ubo, g), LAMBDA M1 :
       Bind(equals(M1, x, M1.ret, ubo, g), LAMBDA M2 :
       [M2 EXCEPT !.calls = @ + 1]))
  ELSE [M EXCEPT !.rv = FALSE]

\* An operator< that orders different alternatives the wrong way round.
variant_less_reversed(M, x, y, ubo, g) ==
  IF M.active[x] = M.active[y]
  THEN Bind(apply_visitor_internal(M, y, ubo, g), LAMBDA M1 :
       Bind(less_than(M1, x, M1.ret, ubo, g), LAMBDA M2 :
       [M2 EXCEPT !.calls = @ + 1]))
  ELSE [M EXCEPT !.rv = (M.active[y] < M.active[x])]

\* operator<(x, y)
variant_less(M, x, y, ubo, g) ==
  IF M.active[x] = M.active[y]
  THEN Bind(apply_visitor_internal(M, y, ubo, g), LAMBDA M1 :
       Bind(less_than(M1, x, M1.ret, ubo, g), LAMBDA M2 :
       [M2 EXCEPT !.calls = @ + 1]))
  ELSE [M EXCEPT !.rv = (M.active[x] < M.active[y])]

\* binary_visitor(visitor, visitable): the user's visitor is <<>>; a
\* binary_visitor is the visitables bound so far, the outermost last
binary_visitor(visitor, visitable) == Append(visitor, visitable)

\* An invoke that passes the value after the arguments it was given.
invoke_args_appended(x, args) == args \o <<x>>

\* The arguments invoke calls the visitor with when the visitable's active
\* value is x and it was given args: visitor(get_value(*x, internal), args...)
invoke_args(x, args) == <<x>> \o args

RECURSIVE call_visitor(_, _, _, _, _)
\* visitor(xs...): the user's visitor records what it is called with;
\* binary_visitor::operator() is visitable.apply<std::false_type>(visitor, xs...)
call_visitor(M, visitor, xs, ubo, g) ==
  IF visitor = <<>> THEN [M EXCEPT !.calls = @ + 1, !.result = xs]
  ELSE Bind(visit_impl(M, visitor[Len(visitor)], FALSE, ubo, g), LAMBDA M1 :
       call_visitor(M1, SubSeq(visitor, 1, Len(visitor) - 1),
                    invoke_args([ty |-> M1.ret.ty, val |-> M1.ret.val], xs),
                    ubo, g))

RECURSIVE apply_visitor(_, _, _, _, _)
\* apply_visitor(visitor, v, vs...): unary is visitable.apply<std::false_type>(visitor),
\* n-ary is apply_visitor(binary_visitor<Visitor, V>(visitor, v), vs...)
apply_visitor(M, visitor, vs, ubo, g) ==
  IF Len(vs) = 1
  THEN Bind(visit_impl(M, vs[1], FALSE, ubo, g), LAMBDA M1 :
       call_visitor(M1, visitor,
                    invoke_args([ty |-> M1.ret.ty, val |-> M1.ret.val], <<>>),
                    ubo, g))
  ELSE apply_visitor(M, binary_visitor(visitor, vs[1]), Tail(vs), ubo, g)

\* visit(v, vs...): apply_visitor(std::forward<Visitor>(v), expose(vs)...)
visit(M, vs, ubo, g) == apply_visitor(M, <<>>, vs, ubo, g)

\* default_ctor visitor: self.construct(T()), T being the visitor's argument type
default_ctor(M, self, x, ubo, g) ==
  Bind(Born(M, "default", x.ty), LAMBDA M1 :
  Bind(construct(M1, self, [ty |-> x.ty, val |-> 0], TRUE, FALSE, ubo, g),
       LAMBDA M2 :
  T_dtor(M2, M2.ret2)))

\* variant(factory, tag t): active(t) { apply<std::false_type>(default_ctor(*this)); }
variant_factory(M, self, t, ubo, g) ==
  Bind([M EXCEPT !.active[self] = t], LAMBDA M0 :
  Bind(visit_impl(M0, self, FALSE, ubo, g), LAMBDA M1 :
  Bind(default_ctor(M1, self, [ty |-> M1.ret.ty, val |-> M1.ret.val], ubo, g),
       LAMBDA M2 :
  [M2 EXCEPT !.exists[self] = TRUE])))

\* static variant make(tag t) { return {factory{}, t}; }
make(M, self, t, ubo, g) == variant_factory(M, self, t, ubo, g)

----------------------------------------------------------------------------
\* The state machine: a client program calling the public operations.

\* The value a client observes in slot v: Empty for a wrapper that owns nothing
ValueOf(M, v) ==
  LET o == M.storage[v].obj
  IN IF v \notin Slots \/ ~M.exists[v] THEN Empty
     ELSE IF o.ty.wrapped
          THEN IF o.val # Null /\ M.heap[o.val] = "live" THEN M.heapVal[o.val]
               ELSE Empty
     ELSE o.val

TagOf(M, v) == IF v \in Slots /\ M.exists[v] THEN M.active[v] ELSE -1

\* The allocation the wrapper in slot v owns (Null: none, or no wrapper)
ItemOf(M, v) ==
  IF v \in Slots /\ M.exists[v] /\ M.storage[v].obj.ty.wrapped
  THEN M.storage[v].obj.val ELSE Null

\* What the last operation was and did: its arguments, the operands as they
\* were before it, and the constructor / destructor calls it made.
Event(op, dst, src, M0, M, res) ==
  [op |-> op, dst |-> dst, src |-> src, threw |-> M.threw, ub |-> M.ub,
   dstTag |-> TagOf(M0, dst), dstVal |-> ValueOf(M0, dst),
   dstItem |-> ItemOf(M0, dst),
   srcTag |-> TagOf(M0, src), srcVal |-> ValueOf(M0, src),
   srcItem |-> ItemOf(M0, src),
   log |-> M.log, news |-> M.news, deletes |-> M.deletes, res |-> res]

\* An observation leaves the program state as it was: only what it returned
\* is recorded.
Observation(op, res, M) ==
  [op |-> op, dst |-> 0, src |-> 0, threw |-> M.threw, ub |-> M.ub,
   dstTag |-> -1, dstVal |-> Empty, dstItem |-> Null,
   srcTag |-> -1, srcVal |-> Empty, srcItem |-> Null,
   log |-> <<>>, news |-> 0, deletes |-> 0, res |-> res]

\* No operation is being looked at.
Idle == Observation("idle", 0, Machine)

Finish(M, e) ==
  /\ exists' = M.exists
  /\ active' = M.active
  /\ storage' = M.storage
  /\ heap' = M.heap
  /\ heapVal' = M.heapVal
  /\ liveObjects' = M.liveObjects
  /\ fault' = M.fault
  /\ last' = e

Outcomes == {"crash", "go"}

\* One operation op, whose undefined behaviour (if it has any) comes out as
\* any of the outcomes a build can produce; g is what a wild read yields.
Run(op(_, _), event(_)) ==
  \E M \in {op("go", 0)} :
    IF M.ub = "none" THEN Finish(M, event(M))
    ELSE \E ubo \in Outcomes, g \in Vals :
           \E U \in {op(ubo, g)} : Finish(U, event(U))

TypeNames == {Ts[i].name : i \in 1..Len(Ts)}

\* The program runs until it traps.  last describes the operation that has
\* just returned; the client then goes on (Resume) to its next operation.
Running == fault = "none" /\ last.op = "idle"

Init ==
  /\ exists = [v \in Slots |-> FALSE]
  /\ active = [v \in Slots |-> 0]
  /\ storage = [v \in Slots |-> RawStorage]
  /\ heap = [a \in Addrs |-> "unused"]
  /\ heapVal = [a \in Addrs |-> 0]
  /\ liveObjects = 0
  /\ fault = "none"
  /\ last = Idle

DefaultConstruct(v) ==
  /\ Running /\ ~exists[v]
  /\ Run(LAMBDA ubo, g : variant_default(Machine, v, ubo, g),
         LAMBDA M : Event("default", v, 0, Machine, M, 0))

ValueConstruct(v) ==
  /\ Running /\ ~exists[v]
  /\ \E nm \in TypeNames, t \in Vals, rvalue, fail \in BOOLEAN :
       /\ fail => (~rvalue \/ Ts[overload(nm) + 1].wrapped)
       /\ Run(LAMBDA ubo, g : variant_value(Machine, v, nm, t, rvalue, fail, ubo, g),
              LAMBDA M : Event("value", v, 0, Machine, M, [nm |-> nm, t |-> t]))

CopyConstruct(v, other) ==
  /\ Running /\ ~exists[v] /\ exists[other]
  /\ \E fail \in BOOLEAN :
       Run(LAMBDA ubo, g : variant_copy(Machine, v, other, fail, ubo, g),
           LAMBDA M : Event("copy", v, other, Machine, M, 0))

MoveConstruct(v, other) ==
  /\ Running /\ ~exists[v] /\ exists[other]
  /\ Run(LAMBDA ubo, g : variant_move(Machine, v, other, ubo, g),
         LAMBDA M : Event("move", v, other, Machine, M, 0))

CopyAssign(v, rhs) ==
  /\ Running /\ exists[v] /\ exists[rhs]
  /\ \E fail \in BOOLEAN :
       Run(LAMBDA ubo, g : variant_assign(Machine, v, rhs, fail, ubo, g),
           LAMBDA M : Event("assign", v, rhs, Machine, M, [fail |-> fail]))

MoveAssign(v, rhs) ==
  /\ Running /\ exists[v] /\ exists[rhs]
  /\ Run(LAMBDA ubo, g : variant_move_assign(Machine, v, rhs, ubo, g),
         LAMBDA M : Event("move_assign", v, rhs, Machine, M, 0))

Destroy(v) ==
  /\ Running /\ exists[v]
  /\ Run(LAMBDA ubo, g : variant_dtor(Machine, v, ubo, g),
         LAMBDA M : Event("destroy", v, 0, Machine, M, 0))

\* a client writes x through the pointer get<T>(v) returned
mutate(M, v, nm, x, ubo, g) ==
  Bind(get(M, v, nm, ubo, g), LAMBDA M1 :
  IF M1.ret.ptr = nullptr THEN M1
  ELSE IF M1.ret.ptr[1] = "heap" THEN [M1 EXCEPT !.heapVal[M1.ret.ptr[2]] = x]
  ELSE [M1 EXCEPT !.storage[v].obj.val = x])

Mutate(v) ==
  /\ Running /\ exists[v]
  /\ \E x \in Vals :
       Run(LAMBDA ubo, g : mutate(Machine, v, Ts[active[v] + 1].name, x, ubo, g),
           LAMBDA M : Event("mutate", v, 0, Machine, M, [x |-> x]))

\* get<T>(v), is<T>(v) and which(v) of one variant
Get(v) ==
  /\ Running /\ exists[v]
  /\ \E nm \in TypeNames :
       Run(LAMBDA ubo, g : is(Machine, v, nm, ubo, g),
           LAMBDA M : Observation("get",
                        IF Dead(M) THEN [v |-> v, nm |-> nm]
                        ELSE [v |-> v, nm |-> nm, ptr |-> M.ret.ptr,
                              val |-> M.ret.val, is |-> M.rv,
                              which |-> which(M, v)], M))

\* x == y and x < y
compare(M, x, y, ubo, g) ==
  Bind(variant_eq(M, x, y, ubo, g), LAMBDA E :
  Bind(variant_less([E EXCEPT !.calls = 0], x, y, ubo, g), LAMBDA L :
  [L EXCEPT !.result = [eq |-> E.rv, lt |-> L.rv,
                        eqCalls |-> E.calls, ltCalls |-> L.calls]]))

Compare(x, y) ==
  /\ Running /\ exists[x] /\ exists[y]
  /\ Run(LAMBDA ubo, g : compare(Machine, x, y, ubo, g),
         LAMBDA M : Observation("compare",
                      IF Dead(M) THEN [x |-> x, y |-> y]
                      ELSE [x |-> x, y |-> y, eq |-> M.result.eq,
                            lt |-> M.result.lt, eqCalls |-> M.result.eqCalls,
                            ltCalls |-> M.result.ltCalls], M))

Visit ==
  /\ Running
  /\ \E k \in 1..MaxArity :
       \E vs \in [1..k -> {v \in Slots : exists[v]}] :
         Run(LAMBDA ubo, g : visit(Machine, vs, ubo, g),
             LAMBDA M : Observation("visit",
                          [vs |-> vs, calls |-> M.calls, result |-> M.result], M))

Make(v) ==
  /\ Running /\ ~exists[v]
  /\ \E t \in Tags :
       Run(LAMBDA ubo, g : make(Machine, v, t, ubo, g),
           LAMBDA M : Event("make", v, 0, Machine, M, [tag |-> t]))

Resume ==
  /\ fault = "none" /\ last.op # "idle"
  /\ last' = Idle
  /\ UNCHANGED <<exists, active, storage, heap, heapVal, liveObjects, fault>>

Next ==
  \/ \E v \in Slots : DefaultConstruct(v)
  \/ \E v \in Slots : ValueConstruct(v)
  \/ \E v, other \in Slots : CopyConstruct(v, other)
  \/ \E v, other \in Slots : MoveConstruct(v, other)
  \/ \E v, rhs \in Slots : CopyAssign(v, rhs)
  \/ \E v, rhs \in Slots : MoveAssign(v, rhs)
  \/ \E v \in Slots : Destroy(v)
  \/ \E v \in Slots : Mutate(v)
  \/ \E v \in Slots : Get(v)
  \/ \E x, y \in Slots : Compare(x, y)
  \/ Visit
  \/ Resume

\* A client that uses the operations other than make()
Spec == Init /\ [][Next]_vars

NextMake == Next \/ \E v \in Slots : Make(v)

\* A client that also uses make()
SpecMake == Init /\ [][NextMake]_vars

----------------------------------------------------------------------------
\* Properties.  last describes the operation that has just returned and the
\* operands as they were before it; the variables are the state after it.

Existing == {v \in Slots : exists[v]}

\* The declared index of the alternative that stores a T
IndexOf(nm) == CHOOSE i \in Tags : Ts[i + 1].name = nm

\* The wrappers that own allocation a
Owners(a) == {v \in Existing : storage[v].obj.ty.wrapped /\ storage[v].obj.val = a}

\* How many calls of the given kinds the last operation made on objects of type ty
Count(kinds, ty) ==
  Cardinality({i \in DOMAIN last.log : last.log[i][1] \in kinds /\ last.log[i][2] = ty})

Constructions == {"default", "convert", "copy", "move"}

\* Slot v holds a value a client may read: it is not a moved-from wrapper
Holds(v) == exists[v] /\ ValueOf(Machine, v) # Empty

\* The source of the last operation held a value before it
SrcHeld == last.srcVal # Empty

\* C1: after every completed construction or assignment, normal or failed,
\* each existing variant has exactly one object live in its buffer, its
\* discriminator is in [0, n), and the live object is of the alternative type
\* declared at that index; a variant whose construction failed does not exist
\* and its buffer is raw.
C1_OneLiveAlternative ==
  fault = "none" =>
    \A v \in Slots :
      IF exists[v]
      THEN /\ storage[v].live = 1
           /\ active[v] \in Tags
           /\ storage[v].obj.ty = Ts[active[v] + 1]
      ELSE storage[v].live = 0

\* a copy assignment between variants of the same alternative has returned by
\* a propagated failure
C1_Witness_FailedAssign ==
  /\ fault = "none" /\ last.op = "assign" /\ last.threw
  /\ last.dstTag = last.srcTag /\ last.dst # last.src
  /\ exists[last.dst] /\ storage[last.dst].live = 1

\* C2: a variant constructed from a value t of type T (T stored directly or
\* through a recursive wrapper) has which() = T's declared index, is<T>() true,
\* get<T>() non-null and pointing at a value equal to t, and get<U>() null for
\* every other U.
C2_RoundTrip ==
  (last.op = "value" /\ ~last.threw) =>
    /\ fault = "none" /\ last.ub = "none"
    /\ which(Machine, last.dst) = IndexOf(last.res.nm)
    /\ \A U \in TypeNames :
         \E M \in {is(Machine, last.dst, U, "crash", 0)} :
           /\ M.fault = "none" /\ M.ub = "none"
           /\ IF U = last.res.nm
              THEN M.rv /\ M.ret.ptr # nullptr /\ M.ret.val = last.res.t
              ELSE ~M.rv /\ M.ret.ptr = nullptr

\* a variant has been constructed from a Node, which is stored through the wrapper
C2_Witness_WrappedValue ==
  /\ last.op = "value" /\ ~last.threw /\ fault = "none"
  /\ last.res.nm = "Node" /\ last.res.t = MaxVal
  /\ storage[last.dst].obj.ty.wrapped
  /\ get(Machine, last.dst, "Node", "crash", 0).ret.val = MaxVal

\* C3: make(tag) yields, for every valid tag, a variant with which() = tag
\* whose buffer holds an object of exactly the alternative type declared at
\* tag, and it never reads or unwraps the buffer before it is constructed.
C3_MakeConstructsDeclared ==
  last.op = "make" =>
    /\ fault = "none" /\ last.ub = "none"
    /\ exists[last.dst] /\ active[last.dst] = last.res.tag
    /\ storage[last.dst].live = 1
    /\ storage[last.dst].obj.ty = Ts[last.res.tag + 1]

\* C4: for variants that hold values, x == y iff the discriminators are equal
\* and the values are equal; x < y iff the discriminator of x is smaller, or
\* they are equal and the value of x is smaller; the values are compared only
\* when the discriminators are equal; and < is irreflexive, transitive and
\* total up to ==.
C4_Lexicographic ==
  (last.op = "compare" /\ Holds(last.res.x) /\ Holds(last.res.y)) =>
    /\ fault = "none" /\ last.ub = "none"
    /\ \E x \in {last.res.x}, y \in {last.res.y} :
         /\ last.res.eq <=> /\ active[x] = active[y]
                            /\ ValueOf(Machine, x) = ValueOf(Machine, y)
         /\ last.res.lt <=> \/ active[x] < active[y]
                            \/ /\ active[x] = active[y]
                               /\ ValueOf(Machine, x) < ValueOf(Machine, y)
         /\ last.res.eqCalls = IF active[x] = active[y] THEN 1 ELSE 0
         /\ last.res.ltCalls = IF active[x] = active[y] THEN 1 ELSE 0
    /\ \A a, b, c \in {v \in Existing : Holds(v)} :
         \E ab \in {variant_less(Machine, a, b, "crash", 0).rv},
            ba \in {variant_less(Machine, b, a, "crash", 0).rv},
            bc \in {variant_less(Machine, b, c, "crash", 0).rv},
            ac \in {variant_less(Machine, a, c, "crash", 0).rv},
            eq \in {variant_eq(Machine, a, b, "crash", 0).rv} :
           /\ ~(ab /\ ba)
           /\ (ab /\ bc) => ac
           /\ (IF ab THEN 1 ELSE 0) + (IF ba THEN 1 ELSE 0)
                + (IF eq THEN 1 ELSE 0) = 1

\* two variants of different alternatives were compared, the one with the
\* smaller discriminator holding the larger value
C4_Witness_TagDecides ==
  /\ last.op = "compare" /\ fault = "none"
  /\ Holds(last.res.x) /\ Holds(last.res.y)
  /\ active[last.res.x] < active[last.res.y]
  /\ ValueOf(Machine, last.res.x) > ValueOf(Machine, last.res.y)
  /\ last.res.lt /\ ~last.res.eq /\ last.res.ltCalls = 0

\* A copy assignment between two distinct variants of different alternatives,
\* the source holding a value and no copy failing
CrossAssign ==
  /\ last.op = "assign" /\ last.dst # last.src
  /\ last.dstTag # last.srcTag /\ SrcHeld /\ ~last.res.fail

\* C5 (as stated): a cross-alternative copy assignment makes exactly one
\* destruction of an A and exactly one construction of a B; afterwards there
\* are as many live alternative objects as variants, and the source is unchanged.
C5_OneConstruction ==
  CrossAssign =>
    /\ fault = "none" /\ ~last.threw
    /\ Count({"dtor"}, Ts[last.dstTag + 1]) = 1
    /\ Count(Constructions, Ts[last.srcTag + 1]) = 1
    /\ liveObjects = Cardinality(Existing)
    /\ TagOf(Machine, last.src) = last.srcTag
    /\ ValueOf(Machine, last.src) = last.srcVal

\* C5 (amended): a cross-alternative copy assignment copy-constructs a
\* temporary B from the source, destroys the destination's A, move-constructs
\* the destination's B from the temporary and destroys the temporary: one
\* destruction of an A, two constructions and one destruction of a B.
\* Afterwards there are as many live alternative objects as variants, every
\* live allocation has exactly one owner, the destination holds the source's
\* value and the source is unchanged.
C5_CrossAssignCounts ==
  CrossAssign =>
    /\ fault = "none" /\ last.ub = "none" /\ ~last.threw
    /\ last.log = << <<"copy", Ts[last.srcTag + 1]>>, <<"dtor", Ts[last.dstTag + 1]>>,
                     <<"move", Ts[last.srcTag + 1]>>, <<"dtor", Ts[last.srcTag + 1]>> >>
    /\ liveObjects = Cardinality(Existing)
    /\ \A a \in Addrs : heap[a] = "live" <=> Cardinality(Owners(a)) = 1
    /\ TagOf(Machine, last.dst) = last.srcTag
    /\ ValueOf(Machine, last.dst) = last.srcVal
    /\ TagOf(Machine, last.src) = last.srcTag
    /\ ValueOf(Machine, last.src) = last.srcVal
    /\ ItemOf(Machine, last.src) = last.srcItem

\* a variant holding a Node was copy-assigned to one holding another alternative
C5_Witness_WrapperOverPlain ==
  /\ CrossAssign /\ fault = "none" /\ ~last.threw
  /\ Ts[last.srcTag + 1].wrapped
  /\ ItemOf(Machine, last.dst) # Null
  /\ ItemOf(Machine, last.dst) # ItemOf(Machine, last.src)

\* C6: a copy assignment between variants of the same discriminator (the
\* source holding a value, its copy not failing) assigns in place: the only
\* call is the alternative's own assignment, the destination's object keeps
\* its identity and its discriminator, and afterwards destination == source.
C6_InPlaceAssign ==
  (last.op = "assign" /\ last.dstTag = last.srcTag /\ SrcHeld /\ ~last.res.fail) =>
    /\ fault = "none" /\ last.ub = "none" /\ ~last.threw
    /\ last.log = << <<"assign", Ts[last.dstTag + 1]>> >>
    /\ storage[last.dst].live = 1
    /\ ItemOf(Machine, last.dst) = last.dstItem
    /\ TagOf(Machine, last.dst) = last.dstTag
    /\ variant_eq(Machine, last.dst, last.src, "crash", 0).rv = TRUE

\* C7: when the copy of the source's alternative fails in a copy assignment
\* between variants of different discriminators, the failure reaches the
\* caller and the destination is as it was: same discriminator, same value,
\* same object, nothing destroyed.
C7_FailedCopyLeavesDestination ==
  (last.op = "assign" /\ last.dstTag # last.srcTag /\ SrcHeld /\ last.res.fail) =>
    /\ fault = "none" /\ last.threw
    /\ last.log = <<>>
    /\ storage[last.dst].live = 1
    /\ storage[last.dst].obj.ty = Ts[last.dstTag + 1]
    /\ TagOf(Machine, last.dst) = last.dstTag
    /\ ValueOf(Machine, last.dst) = last.dstVal
    /\ ItemOf(Machine, last.dst) = last.dstItem
    /\ liveObjects = Cardinality(Existing)

\* the copy of a Node failed while it was assigned over another alternative
C7_Witness_FailedWrapperCopy ==
  /\ last.op = "assign" /\ last.dstTag # last.srcTag /\ SrcHeld /\ last.res.fail
  /\ last.threw /\ fault = "none"
  /\ Ts[last.srcTag + 1].wrapped /\ last.dstVal = MaxVal

\* Destroying a and then b runs to the end, destroys both objects and leaves
\* nothing they owned allocated
DestroysCleanly(a, b) ==
  \E M \in {Bind(variant_dtor(Machine, a, "crash", 0), LAMBDA M1 :
            variant_dtor(M1, b, "crash", 0))} :
    /\ M.fault = "none" /\ M.ub = "none"
    /\ M.liveObjects = liveObjects - 2
    /\ \A x \in Addrs : (Owners(x) # {} /\ Owners(x) \subseteq {a, b}) => M.heap[x] = "unused"

\* C8: after v2 is move-constructed or move-assigned from another variant v,
\* v2 has v's former discriminator and value, v keeps its discriminator and a
\* live object of that alternative, and destroying both in either order
\* destroys every object and frees every allocation exactly once.
C8_MovePreserves ==
  (last.op \in {"move", "move_assign"} /\ last.dst # last.src) =>
    /\ fault = "none" /\ last.ub = "none"
    /\ TagOf(Machine, last.dst) = last.srcTag
    /\ ValueOf(Machine, last.dst) = last.srcVal
    /\ TagOf(Machine, last.src) = last.srcTag
    /\ storage[last.src].live = 1
    /\ storage[last.src].obj.ty = Ts[last.srcTag + 1]
    /\ DestroysCleanly(last.dst, last.src)
    /\ DestroysCleanly(last.src, last.dst)

\* A copy (construction or assignment) of a variant holding a Node
WrapperCopied ==
  /\ last.op \in {"copy", "assign"} /\ last.dst # last.src
  /\ Ts[last.srcTag + 1].wrapped /\ SrcHeld /\ ~last.threw

\* A move (construction or assignment) of a variant whose alternative is the wrapper
WrapperMoved ==
  /\ last.op \in {"move", "move_assign"} /\ last.dst # last.src
  /\ Ts[last.srcTag + 1].wrapped

\* C9: every allocation is owned by at most one wrapper; a copy of a wrapper
\* owns an allocation of its own that holds a copy of the source's value, and
\* writing through the copy leaves the original as it was; a move hands the
\* donor's allocation to the destination without allocating and leaves the
\* donor empty.
C9_WrapperOwnership ==
  /\ fault = "none" => \A a \in Addrs : Cardinality(Owners(a)) <= 1
  /\ WrapperCopied =>
       /\ fault = "none" /\ last.ub = "none"
       /\ ItemOf(Machine, last.dst) \notin {Null, ItemOf(Machine, last.src)}
       /\ ValueOf(Machine, last.dst) = last.srcVal
       /\ ValueOf(Machine, last.src) = last.srcVal
       /\ \A x \in Vals :
            ValueOf(mutate(Machine, last.dst, "Node", x, "crash", 0), last.src)
              = last.srcVal
  /\ WrapperMoved =>
       /\ fault = "none" /\ last.ub = "none"
       /\ last.news = 0
       /\ ItemOf(Machine, last.dst) = last.srcItem
       /\ ItemOf(Machine, last.src) = Null

\* C10: visit(visitor, v1, ..., vk), k >= 2, on variants that hold values
\* calls the visitor exactly once, its i-th argument being the unwrapped
\* active value of vi, and returns what that call returns.
C10_VisitInOrder ==
  (last.op = "visit" /\ Len(last.res.vs) >= 2
     /\ \A i \in DOMAIN last.res.vs : Holds(last.res.vs[i])) =>
    /\ fault = "none" /\ last.ub = "none"
    /\ last.res.calls = 1
    /\ last.res.result =
         [i \in DOMAIN last.res.vs |->
            [ty |-> Plain(Ts[active[last.res.vs[i]] + 1].name),
             val |-> ValueOf(Machine, last.res.vs[i])]]

\* a Node and a plain alternative of a different value were visited together,
\* the Node first
C10_Witness_MixedPair ==
  /\ last.op = "visit" /\ fault = "none" /\ Len(last.res.vs) = 2
  /\ last.res.calls = 1
  /\ last.res.result[1].ty = Plain("Node")
  /\ last.res.result[2].ty # Plain("Node")
  /\ last.res.result[1].val # last.res.result[2].val

\* An assignment (copy without a failing copy, or move) of another variant
\* that holds a value to a donor: a variant whose recursive wrapper was
\* emptied by an earlier move
AssignedToDonor ==
  /\ last.op \in {"assign", "move_assign"} /\ last.dst # last.src
  /\ Ts[last.dstTag + 1].wrapped /\ last.dstItem = Null
  /\ SrcHeld
  /\ last.op = "assign" => ~last.res.fail

\* C11: an assignment to a moved-from wrapper variant, by copy or by move and
\* whatever the discriminator of the assigned variant, completes without
\* dereferencing the donor's empty wrapper and leaves the donor with the
\* assigned variant's discriminator and value.
C11_AssignToDonor ==
  AssignedToDonor =>
    /\ fault = "none" /\ last.ub = "none" /\ ~last.threw
    /\ storage[last.dst].live = 1
    /\ TagOf(Machine, last.dst) = last.srcTag
    /\ ValueOf(Machine, last.dst) = last.srcVal

\* v = v or v = std::move(v), the alternative's own assignment not failing
SelfAssigned ==
  /\ last.op \in {"assign", "move_assign"} /\ last.dst = last.src
  /\ last.op = "assign" => ~last.res.fail

\* Destroying v runs to the end, destroys its one object and frees what it owned
DestroysOnce(v) ==
  \E M \in {variant_dtor(Machine, v, "crash", 0)} :
    /\ M.fault = "none" /\ M.ub = "none"
    /\ M.liveObjects = liveObjects - 1
    /\ M.log = << <<"dtor", Ts[active[v] + 1]>> >>
    /\ \A x \in Addrs : Owners(x) = {v} => M.heap[x] = "unused"

\* C12: a self-assignment, by copy or by move, takes the same-discriminator
\* path and completes: the only call made is the alternative's own assignment
\* on the live object, which is neither destroyed nor reconstructed and keeps
\* its identity, the discriminator is unchanged, and the variant can then be
\* destroyed exactly once.
C12_SelfAssign ==
  SelfAssigned =>
    /\ fault = "none" /\ last.ub = "none" /\ ~last.threw
    /\ last.log = << <<last.op, Ts[last.dstTag + 1]>> >>
    /\ last.news = 0 /\ last.deletes = 0
    /\ storage[last.dst].live = 1
    /\ storage[last.dst].obj.ty = Ts[last.dstTag + 1]
    /\ TagOf(Machine, last.dst) = last.dstTag
    /\ ItemOf(Machine, last.dst) = last.dstItem
    /\ DestroysOnce(last.dst)

====
